---- MODULE Spec2Model ----
(***************************************************************************)
(* Model of src/main.rs of rust-static: the live development loop.         *)
(* Threads: the main thread (initial build, then the rebuild loop), the    *)
(* watcher thread (watch_content_directory), one thread per HTTP server    *)
(* instance (start_server) and the WebSocket event loop (start_ws_server). *)
(* Shared state: the mpsc channel tx/rx, the Mutex<bool> server_control,   *)
(* the AtomicBool NOTIFY_RELOAD and the Vec WS_CLIENTS.                    *)
(***************************************************************************)
EXTENDS Integers, Sequences, FiniteSets, TLC

\* ---- bounds -------------------------------------------------------------
MaxTime == 2      \* the file system clock runs 0..MaxTime
MaxConn == 2      \* WS_CLIENTS holds at most MaxConn entries
MaxText == 2      \* characters in the text and in the target of a link line
MaxLines == 2     \* lines of a document given to markdown_to_html
MaxBuilds == 2    \* calls of build_site on one content tree

\* ---- fixed sets -----------------------------------------------------------
Collections == <<"pages", "projects">>   \* build_site: vec!["pages", "projects"]
CollectionSet == {Collections[i] : i \in 1..Len(Collections)}
Clients == {"c1", "c2"}                  \* browser tabs
Requests == {"ok", "bad"}                \* a request handle_connection serves / one that makes it panic

VARIABLES
  now,            \* file system clock
  dirMtime,       \* modification time of content/<collection> (a direct entry of content/)
  fileMtime,      \* modification time of the source document in content/<collection>
  readable,       \* readable[c]: content/<c> and templates/<c>.html can be read
  output,         \* output[c]: the version (modification time) of the document output/<c> was rendered from
  last_modified,  \* watch_content_directory: let mut last_modified
  rx,             \* ChangeEvents queued in the mpsc channel
  orchPC,         \* position of the main thread in its loop; "dead" = the process has exited
  control,        \* the bool inside server_control
  holder,         \* owner of the server_control mutex: "none", "main" or an instance number
  poisoned,       \* the mutex is poisoned: a thread panicked while holding its guard
  srv,            \* srv[i]: position of HTTP server instance i (thread running start_server)
  NOTIFY_RELOAD,  \* the AtomicBool
  WS_CLIENTS,     \* the Vec<Sender>
  connected,      \* clients with an open reload connection
  wsPC,           \* position of the WebSocket event loop inside the message closure
  wsCur,          \* the client whose message the event loop is handling
  \* history variables (observations, never read by the program)
  eventsSent,     \* ChangeEvents sent by the watcher
  polled,         \* the last poll: stored timestamp before it, whether it sent an event,
                  \* whether a source document was newer than the stored timestamp,
                  \* and the parity of the number of polls so far
  started,        \* rebuild cycles started (events received)
  finished,       \* rebuild cycles that reached the end of the match arm
  rebuilding,     \* rebuild cycles in progress
  builds,         \* rebuilds whose build_site returned Ok
  failedBuilds,   \* rebuilds whose build_site failed
  flagSets,       \* stores of true into NOTIFY_RELOAD
  sent,           \* sent[c]: reload instructions sent to client c
  sentSinceSet,   \* reload instructions sent since the last store of true
  unnotified,     \* a store of true happened and no reload instruction was sent after it
  signaled,       \* instances that were listening when main wrote false into control
  checkedAfter,   \* signaled instances that read control after that write
  touchPending,   \* clients connected when a source document was modified and ever since,
                  \* with no reload instruction sent since
  \* the functions of the program taken alone, each on inputs of its own
  markdown,       \* markdown_to_html: the text given, as its sequence of lines
  html,           \* markdown_to_html: status "none" before the call, then "ok" with the
                  \* elements pushed to the result, or "panic"
  srcDir,         \* build_site: srcDir[c], the plain files of content/<c>, each with the
                  \* version of its text
  srcOK,          \* build_site: srcOK[c] is "ok", or names what cannot be read:
                  \* "dir" (content/<c>) or "template" (templates/<c>.html)
  outTree,        \* build_site: outTree[c][stem], the content of output/<c>/<stem>.html
  prevTree,       \* outTree before the last call of build_site
  built,          \* the calls of build_site so far: the result and the sources read
  outFiles,       \* handle_connection: the plain files that exist under output/
  request,        \* handle_connection: the tokens of the request line read, <<"none">> before
  response        \* handle_connection: the response written, status "panic" if none was

fsVars == <<now, dirMtime, fileMtime, readable, output>>
watchVars == <<last_modified, rx, eventsSent, polled>>
orchVars == <<orchPC, started, finished, rebuilding, builds, failedBuilds>>
mutexVars == <<control, holder, poisoned>>
srvVars == <<srv, signaled, checkedAfter>>
wsVars == <<NOTIFY_RELOAD, WS_CLIENTS, connected, wsPC, wsCur>>
histVars == <<flagSets, sent, sentSinceSet, unnotified, touchPending>>
renderVars == <<markdown, html>>
buildVars == <<srcDir, srcOK, outTree, prevTree, built>>
httpVars == <<outFiles, request, response>>
pureVars == <<renderVars, buildVars, httpVars>>
loopVars == <<fsVars, watchVars, orchVars, mutexVars, srvVars, wsVars, histVars>>
vars == <<loopVars, pureVars>>

alive == orchPC # "dead"

\* An instance holds the listening socket from a successful bind until
\* start_server returns or its thread unwinds.
Listening(i) == srv[i] \in {"accept", "lock"}
ListeningSet == {i \in 1..Len(srv) : Listening(i)}

\* State after main has run lines 14-32: initial build done, watcher, first
\* HTTP server thread and WebSocket thread spawned, main about to call recv.
LoopInit ==
  /\ now = 0
  /\ dirMtime = [c \in CollectionSet |-> 0]
  /\ fileMtime = [c \in CollectionSet |-> 0]
  /\ readable = [c \in CollectionSet |-> TRUE]
  /\ output = [c \in CollectionSet |-> 0]
  /\ last_modified = 0
  /\ rx = 0
  /\ orchPC = "recv"
  /\ control = TRUE
  /\ holder = "none"
  /\ poisoned = FALSE
  /\ srv = <<"bind">>
  /\ NOTIFY_RELOAD = FALSE
  /\ WS_CLIENTS = <<>>
  /\ connected = {}
  /\ wsPC = "idle"
  /\ wsCur = "c1"
  /\ eventsSent = 0
  /\ polled = [prev |-> 0, emitted |-> FALSE, docNewer |-> FALSE, tick |-> 0]
  /\ started = 0
  /\ finished = 0
  /\ rebuilding = 0
  /\ builds = 0
  /\ failedBuilds = 0
  /\ flagSets = 0
  /\ sent = [c \in Clients |-> 0]
  /\ sentSinceSet = 0
  /\ unnotified = FALSE
  /\ signaled = {}
  /\ checkedAfter = {}
  /\ touchPending = {}

\* markdown_to_html not called
RenderIdle ==
  /\ markdown = <<>>
  /\ html = [status |-> "none", elems |-> <<>>]

\* build_site (taken alone) not called
BuildIdle ==
  /\ srcDir = [c \in CollectionSet |-> <<>>]
  /\ srcOK = [c \in CollectionSet |-> "ok"]
  /\ outTree = [c \in CollectionSet |-> <<>>]
  /\ prevTree = [c \in CollectionSet |-> <<>>]
  /\ built = <<>>

\* handle_connection (taken alone) not called
HttpIdle ==
  /\ outFiles = {}
  /\ request = <<"none">>
  /\ response = [status |-> "none", body |-> <<>>, script |-> FALSE]

Init ==
  /\ LoopInit
  /\ RenderIdle
  /\ BuildIdle
  /\ HttpIdle

\* ---- the file system (environment) --------------------------------------

\* A source document content/<c>/<file> is modified in place: its own
\* modification time advances, the directory's does not.
TouchFile(c) ==
  /\ alive
  /\ now < MaxTime
  /\ now' = now + 1
  /\ fileMtime' = [fileMtime EXCEPT ![c] = now + 1]
  /\ touchPending' = touchPending \cup connected
  /\ UNCHANGED <<dirMtime, readable, output, watchVars, orchVars, mutexVars, srvVars, wsVars,
                 flagSets, sent, sentSinceSet, unnotified>>
  /\ UNCHANGED pureVars

\* A source document is created in (or renamed into) content/<c>: the
\* directory entry list changes, so the directory's modification time advances.
AddFile(c) ==
  /\ alive
  /\ now < MaxTime
  /\ now' = now + 1
  /\ fileMtime' = [fileMtime EXCEPT ![c] = now + 1]
  /\ dirMtime' = [dirMtime EXCEPT ![c] = now + 1]
  /\ UNCHANGED <<readable, output, watchVars, orchVars, mutexVars, srvVars, wsVars, histVars>>
  /\ UNCHANGED pureVars

\* content/<c> or templates/<c>.html becomes unreadable (removed, permissions)
\* or readable again; neither changes the modification time of content/<c>.
SetReadable(c, ok) ==
  /\ alive
  /\ now < MaxTime
  /\ now' = now + 1
  /\ readable[c] # ok
  /\ readable' = [readable EXCEPT ![c] = ok]
  /\ UNCHANGED <<dirMtime, fileMtime, output, watchVars, orchVars, mutexVars, srvVars, wsVars, histVars>>
  /\ UNCHANGED pureVars

\* ---- watch_content_directory --------------------------------------------

\* Variant of ScanEntries: the loop stops at the first entry found newer.
RECURSIVE ScanEntriesBreaks(_, _)
ScanEntriesBreaks(mtimes, st) ==
  IF mtimes = <<>> \/ st[1] THEN st
  ELSE LET modified == Head(mtimes)
       IN ScanEntriesBreaks(Tail(mtimes),
                            IF modified > st[2] THEN <<TRUE, modified>> ELSE st)

\* The for loop of lines 214-223 over the entries' modification times, in
\* the order read_dir returned them; st = <<changed, last_modified>>.
RECURSIVE ScanEntries(_, _)
ScanEntries(mtimes, st) ==
  IF mtimes = <<>> THEN st
  ELSE LET modified == Head(mtimes)
       IN ScanEntries(Tail(mtimes),
                      IF modified > st[2] THEN <<TRUE, modified>> ELSE st)

\* The orders in which read_dir("content") can return the entries.
EntryOrders == {<<"pages", "projects">>, <<"projects", "pages">>}

\* One iteration of the watcher loop (lines 211-227).
WatcherPoll ==
  /\ alive
  /\ \E order \in EntryOrders :
       LET st == ScanEntries([k \in 1..Len(order) |-> dirMtime[order[k]]],
                             <<FALSE, last_modified>>)
       IN /\ last_modified' = st[2]
          /\ rx' = IF st[1] THEN rx + 1 ELSE rx
          /\ eventsSent' = IF st[1] THEN eventsSent + 1 ELSE eventsSent
          /\ polled' = [prev |-> last_modified, emitted |-> st[1],
                        docNewer |-> \E c \in CollectionSet : fileMtime[c] > last_modified,
                        tick |-> 1 - polled.tick]
  /\ UNCHANGED <<fsVars, orchVars, mutexVars, srvVars, wsVars, histVars>>
  /\ UNCHANGED pureVars

\* ---- build_site -----------------------------------------------------------

\* Lines 142-160: the collections in order; an unreadable collection makes
\* build_site fail at that point (read_dir(..)? returns Err, apply_template
\* panics), leaving what was already written.  st = <<ok, output>>.
RECURSIVE BuildCollections(_, _)
BuildCollections(cols, st) ==
  IF cols = <<>> \/ ~st[1] THEN st
  ELSE LET c == Head(cols)
       IN IF readable[c]
          THEN BuildCollections(Tail(cols), <<TRUE, [st[2] EXCEPT ![c] = fileMtime[c]]>>)
          ELSE <<FALSE, st[2]>>

build_site == BuildCollections(Collections, <<TRUE, output>>)

\* ---- main: the rebuild loop (lines 35-61) ---------------------------------

\* Variant of OrchRecv: the reload flag is raised as soon as the event is
\* received, before the build has run.
OrchRecvNotifiesFirst ==
  /\ orchPC = "recv"
  /\ rx > 0
  /\ rx' = rx - 1
  /\ orchPC' = "build"
  /\ started' = started + 1
  /\ rebuilding' = rebuilding + 1
  /\ NOTIFY_RELOAD' = TRUE
  /\ flagSets' = flagSets + 1
  /\ sentSinceSet' = 0
  /\ unnotified' = TRUE
  /\ UNCHANGED <<fsVars, last_modified, eventsSent, polled, finished, builds, failedBuilds,
                 mutexVars, srvVars, WS_CLIENTS, connected, wsPC, wsCur, sent, touchPending>>
  /\ UNCHANGED pureVars

\* Variant of OrchRecv: an event is taken up wherever the main thread is, as
\* if every event had a rebuild thread of its own.
OrchRecvConcurrent ==
  /\ alive
  /\ rx > 0
  /\ rx' = rx - 1
  /\ orchPC' = "build"
  /\ started' = started + 1
  /\ rebuilding' = rebuilding + 1
  /\ UNCHANGED <<fsVars, last_modified, eventsSent, polled, finished, builds, failedBuilds,
                 mutexVars, srvVars, wsVars, histVars>>
  /\ UNCHANGED pureVars

\* line 36: rx.recv() returns Ok(_)
OrchRecv ==
  /\ orchPC = "recv"
  /\ rx > 0
  /\ rx' = rx - 1
  /\ orchPC' = "build"
  /\ started' = started + 1
  /\ rebuilding' = rebuilding + 1
  /\ UNCHANGED <<fsVars, last_modified, eventsSent, polled, finished, builds, failedBuilds,
                 mutexVars, srvVars, wsVars, histVars>>
  /\ UNCHANGED pureVars

\* line 39: build_site().unwrap(); an Err panics the main thread and the
\* process exits.
OrchBuild ==
  /\ orchPC = "build"
  /\ LET r == build_site
     IN /\ output' = r[2]
        /\ IF r[1]
           THEN /\ orchPC' = "lock"
                /\ builds' = builds + 1
                /\ UNCHANGED failedBuilds
           ELSE /\ orchPC' = "dead"
                /\ failedBuilds' = failedBuilds + 1
                /\ UNCHANGED builds
  /\ UNCHANGED <<now, dirMtime, fileMtime, readable, watchVars, started, finished, rebuilding,
                 mutexVars, srvVars, wsVars, histVars>>
  /\ UNCHANGED pureVars

\* lines 42-43: let mut control = server_control.lock().unwrap(); *control = false
\* On a poisoned mutex lock() returns Err and the unwrap panics the main thread.
OrchLock ==
  /\ orchPC = "lock"
  /\ holder = "none"
  /\ IF poisoned
     THEN /\ orchPC' = "dead"
          /\ UNCHANGED <<holder, control, signaled>>
     ELSE /\ holder' = "main"
          /\ control' = FALSE
          /\ signaled' = signaled \cup ListeningSet
          /\ orchPC' = "sleep"
  /\ UNCHANGED <<fsVars, watchVars, started, finished, rebuilding, builds, failedBuilds,
                 poisoned, srv, checkedAfter, wsVars, histVars>>
  /\ UNCHANGED pureVars

\* line 46: thread::sleep(1s), the guard still in scope
OrchSleep ==
  /\ orchPC = "sleep"
  /\ orchPC' = "spawn"
  /\ UNCHANGED <<fsVars, watchVars, started, finished, rebuilding, builds, failedBuilds,
                 mutexVars, srvVars, wsVars, histVars>>
  /\ UNCHANGED pureVars

\* Variant of OrchSpawn: restarting the HTTP server also restarts the reload
\* channel, dropping the registry and the open reload connections.
OrchSpawnDropsClients ==
  /\ orchPC = "spawn"
  /\ srv' = Append(srv, "bind")
  /\ orchPC' = "settrue"
  /\ WS_CLIENTS' = <<>>
  /\ connected' = {}
  /\ UNCHANGED <<fsVars, watchVars, started, finished, rebuilding, builds, failedBuilds,
                 mutexVars, signaled, checkedAfter, NOTIFY_RELOAD, wsPC, wsCur, histVars>>
  /\ UNCHANGED pureVars

\* lines 49-52: spawn a thread running start_server
OrchSpawn ==
  /\ orchPC = "spawn"
  /\ srv' = Append(srv, "bind")
  /\ orchPC' = "settrue"
  /\ UNCHANGED <<fsVars, watchVars, started, finished, rebuilding, builds, failedBuilds,
                 mutexVars, signaled, checkedAfter, wsVars, histVars>>
  /\ UNCHANGED pureVars

\* line 54: *control = true
OrchSetTrue ==
  /\ orchPC = "settrue"
  /\ control' = TRUE
  /\ orchPC' = "notify"
  /\ UNCHANGED <<fsVars, watchVars, started, finished, rebuilding, builds, failedBuilds,
                 holder, poisoned, srvVars, wsVars, histVars>>
  /\ UNCHANGED pureVars

\* line 57: NOTIFY_RELOAD.store(true)
OrchNotify ==
  /\ orchPC = "notify"
  /\ NOTIFY_RELOAD' = TRUE
  /\ flagSets' = flagSets + 1
  /\ sentSinceSet' = 0
  /\ unnotified' = TRUE
  /\ orchPC' = "unlock"
  /\ UNCHANGED <<fsVars, watchVars, started, finished, rebuilding, builds, failedBuilds,
                 mutexVars, srvVars, WS_CLIENTS, connected, wsPC, wsCur, sent, touchPending>>
  /\ UNCHANGED pureVars

\* Variant of OrchUnlock: the guard is not released at the end of the arm
\* (leaked), the loop goes on to recv with the mutex still held.
OrchUnlockKeepsGuard ==
  /\ orchPC = "unlock"
  /\ orchPC' = "recv"
  /\ finished' = finished + 1
  /\ rebuilding' = rebuilding - 1
  /\ UNCHANGED <<fsVars, watchVars, started, builds, failedBuilds,
                 mutexVars, srvVars, wsVars, histVars>>
  /\ UNCHANGED pureVars

\* line 58: end of the match arm, the MutexGuard control is dropped
OrchUnlock ==
  /\ orchPC = "unlock"
  /\ holder' = "none"
  /\ orchPC' = "recv"
  /\ finished' = finished + 1
  /\ rebuilding' = rebuilding - 1
  /\ UNCHANGED <<fsVars, watchVars, started, builds, failedBuilds,
                 control, poisoned, srvVars, wsVars, histVars>>
  /\ UNCHANGED pureVars

\* ---- start_server (lines 68-83) -------------------------------------------

\* Variant of ServerBind: the bind succeeds although another instance listens
\* on the address (a listener opened with port sharing).
ServerBindShared(i) ==
  /\ alive
  /\ srv[i] = "bind"
  /\ srv' = [srv EXCEPT ![i] = "accept"]
  /\ UNCHANGED <<fsVars, watchVars, orchVars, mutexVars, signaled, checkedAfter, wsVars, histVars>>
  /\ UNCHANGED pureVars

\* line 69: TcpListener::bind(..).unwrap(); the address is in use while
\* another instance holds its listener, and then the thread panics.
ServerBind(i) ==
  /\ alive
  /\ srv[i] = "bind"
  /\ srv' = [srv EXCEPT ![i] = IF ListeningSet = {} THEN "accept" ELSE "bind_panicked"]
  /\ UNCHANGED <<fsVars, watchVars, orchVars, mutexVars, signaled, checkedAfter, wsVars, histVars>>
  /\ UNCHANGED pureVars

\* Variant of ServerServe: the request is handled inside the critical section
\* (the lock of line 76 taken before line 74), so a panic poisons the mutex.
ServerServeUnderLock(i, req) ==
  /\ alive
  /\ srv[i] = "accept"
  /\ holder = "none"
  /\ srv' = [srv EXCEPT ![i] = IF req = "ok" THEN "lock" ELSE "panicked"]
  /\ poisoned' = (poisoned \/ req # "ok")
  /\ UNCHANGED <<fsVars, watchVars, orchVars, control, holder, signaled, checkedAfter, wsVars, histVars>>
  /\ UNCHANGED pureVars

\* lines 72-74: a connection is accepted and handle_connection runs; a
\* request it cannot serve (unreadable, no path, file to send missing)
\* panics the thread, which drops the listener.
ServerServe(i, req) ==
  /\ alive
  /\ srv[i] = "accept"
  /\ srv' = [srv EXCEPT ![i] = IF req = "ok" THEN "lock" ELSE "panicked"]
  /\ UNCHANGED <<fsVars, watchVars, orchVars, mutexVars, signaled, checkedAfter, wsVars, histVars>>
  /\ UNCHANGED pureVars

\* lines 76-79: lock, read the flag, break or go on; the guard is dropped
\* at the end of the iteration (or on break) without anything in between.
\* On a poisoned mutex the unwrap of line 76 panics the thread.
ServerCheck(i) ==
  /\ alive
  /\ srv[i] = "lock"
  /\ holder = "none"
  /\ srv' = [srv EXCEPT ![i] = IF poisoned THEN "panicked"
                                ELSE IF ~control THEN "stopped" ELSE "accept"]
  /\ checkedAfter' = IF i \in signaled /\ ~poisoned THEN checkedAfter \cup {i} ELSE checkedAfter
  /\ UNCHANGED <<fsVars, watchVars, orchVars, mutexVars, signaled, wsVars, histVars>>
  /\ UNCHANGED pureVars

\* ---- start_ws_server (lines 85-96) ----------------------------------------

\* line 87: the factory closure runs for a new connection
ClientConnect(c) ==
  /\ alive
  /\ wsPC = "idle"
  /\ c \notin connected
  /\ Len(WS_CLIENTS) < MaxConn
  /\ WS_CLIENTS' = Append(WS_CLIENTS, c)
  /\ connected' = connected \cup {c}
  /\ UNCHANGED <<fsVars, watchVars, orchVars, mutexVars, srvVars, NOTIFY_RELOAD, wsPC, wsCur, histVars>>
  /\ UNCHANGED pureVars

\* the connection closes; nothing in the source removes the Sender from WS_CLIENTS
ClientDisconnect(c) ==
  /\ alive
  /\ wsPC = "idle"
  /\ c \in connected
  /\ connected' = connected \ {c}
  /\ touchPending' = touchPending \ {c}
  /\ UNCHANGED <<fsVars, watchVars, orchVars, mutexVars, srvVars, NOTIFY_RELOAD, WS_CLIENTS, wsPC, wsCur,
                 flagSets, sent, sentSinceSet, unnotified>>
  /\ UNCHANGED pureVars

\* line 89: a message from c arrives and the closure loads the flag
WsLoad(c) ==
  /\ alive
  /\ wsPC = "idle"
  /\ c \in connected
  /\ IF NOTIFY_RELOAD
     THEN wsPC' = "send" /\ wsCur' = c
     ELSE UNCHANGED <<wsPC, wsCur>>
  /\ UNCHANGED <<fsVars, watchVars, orchVars, mutexVars, srvVars, NOTIFY_RELOAD, WS_CLIENTS, connected, histVars>>
  /\ UNCHANGED pureVars

\* line 90: out.send("reload")
WsSend ==
  /\ alive
  /\ wsPC = "send"
  /\ wsPC' = "clear"
  /\ sent' = [sent EXCEPT ![wsCur] = @ + 1]
  /\ sentSinceSet' = sentSinceSet + 1
  /\ unnotified' = FALSE
  /\ touchPending' = {}
  /\ UNCHANGED <<fsVars, watchVars, orchVars, mutexVars, srvVars, NOTIFY_RELOAD, WS_CLIENTS,
                 connected, wsCur, flagSets>>
  /\ UNCHANGED pureVars

\* Variant of WsClear: the closure returns without clearing the flag.
WsClearForgotten ==
  /\ alive
  /\ wsPC = "clear"
  /\ wsPC' = "idle"
  /\ UNCHANGED <<fsVars, watchVars, orchVars, mutexVars, srvVars, NOTIFY_RELOAD, WS_CLIENTS,
                 connected, wsCur, histVars>>
  /\ UNCHANGED pureVars

\* line 91: NOTIFY_RELOAD.store(false)
WsClear ==
  /\ alive
  /\ wsPC = "clear"
  /\ wsPC' = "idle"
  /\ NOTIFY_RELOAD' = FALSE
  /\ UNCHANGED <<fsVars, watchVars, orchVars, mutexVars, srvVars, WS_CLIENTS, connected, wsCur, histVars>>
  /\ UNCHANGED pureVars

\* ---- the system -------------------------------------------------------------

Env ==
  \/ \E c \in CollectionSet : TouchFile(c)
  \/ \E c \in CollectionSet : AddFile(c)
  \/ \E c \in CollectionSet, ok \in BOOLEAN : SetReadable(c, ok)

Orchestrator ==
  \/ OrchRecv
  \/ OrchBuild
  \/ OrchLock
  \/ OrchSleep
  \/ OrchSpawn
  \/ OrchSetTrue
  \/ OrchNotify
  \/ OrchUnlock

Servers ==
  \/ \E i \in 1..Len(srv) : ServerBind(i)
  \/ \E i \in 1..Len(srv), req \in Requests : ServerServe(i, req)
  \/ \E i \in 1..Len(srv) : ServerCheck(i)

Broadcaster ==
  \/ \E c \in Clients : ClientConnect(c)
  \/ \E c \in Clients : ClientDisconnect(c)
  \/ \E c \in Clients : WsLoad(c)
  \/ WsSend
  \/ WsClear

Next ==
  \/ Env
  \/ WatcherPoll
  \/ Orchestrator
  \/ Servers
  \/ Broadcaster

Spec == Init /\ [][Next]_vars

\* The HTTP server threads and the WebSocket event loop share no variable:
\* each is also composed alone with the file system, the watcher and main.
NextSrv ==
  \/ Env
  \/ WatcherPoll
  \/ Orchestrator
  \/ Servers

SpecSrv == Init /\ [][NextSrv]_vars

NextWs ==
  \/ Env
  \/ WatcherPoll
  \/ Orchestrator
  \/ Broadcaster

SpecWs == Init /\ [][NextWs]_vars

\* The threads that use the stop-flag mutex, with the file system events
\* that make the watcher send ChangeEvents.
NextMutex ==
  \/ \E c \in CollectionSet : AddFile(c)
  \/ WatcherPoll
  \/ Orchestrator
  \/ Servers

\* Every thread that can take a step eventually takes one: the main thread
\* and each HTTP server thread waiting for the mutex.
FairSrv ==
  /\ Init /\ [][NextMutex]_vars
  /\ WF_vars(Orchestrator)
  /\ WF_vars(\E i \in 1..Len(srv) : ServerCheck(i))

\* Every thread that can take a step eventually takes one, and a connected
\* client keeps sending messages.
FairWs ==
  /\ SpecWs
  /\ WF_vars(WatcherPoll)
  /\ WF_vars(Orchestrator)
  /\ WF_vars(\E c \in Clients : WsLoad(c))
  /\ WF_vars(WsSend)
  /\ WF_vars(WsClear)

TypeOK ==
  /\ now \in 0..MaxTime
  /\ orchPC \in {"recv", "build", "lock", "sleep", "spawn", "settrue", "notify", "unlock", "dead"}
  /\ holder \in {"none", "main"}
  /\ \A i \in 1..Len(srv) : srv[i] \in {"bind", "bind_panicked", "accept", "lock", "stopped", "panicked"}
  /\ wsPC \in {"idle", "send", "clear"}

\* ---- properties ------------------------------------------------------------

\* reload instructions sent to all clients
TotalSent == sent["c1"] + sent["c2"]

\* rebuild cycles that have spawned their server instance
Restarts == Len(srv) - 1

\* C1: in every rebuild cycle the build completes before the server restart
\* (the spawn of the new instance), which comes before the store of true into
\* the reload flag; so at any time the flag has been set at most as often
\* as servers were restarted, servers restarted at most as often as builds
\* completed, a cycle is at most one step ahead of the next one, and no reload
\* instruction was sent that a completed build and flag store did not precede.
C1_BuildThenRestartThenNotify ==
  /\ flagSets <= Restarts
  /\ Restarts <= builds
  /\ builds <= flagSets + 1
  /\ TotalSent <= flagSets
  /\ (NOTIFY_RELOAD => flagSets >= 1)
  /\ (orchPC \in {"spawn", "settrue", "notify"} => builds = started)
  /\ (orchPC \in {"notify"} => Restarts = started)

\* C1 witness: a rebuild cycle has run to its end and a client was told to reload.
C1_Witness == finished >= 1 /\ TotalSent >= 1

\* C2: rebuilds are serialized: never two rebuilds in progress; every event
\* sent is either still queued or was received (none lost); and when a
\* rebuild starts, every earlier cycle has spawned its server instance, put
\* the flag back to true and released the mutex.
C2_RebuildsSerialized ==
  /\ rebuilding <= 1
  /\ eventsSent = started + rx
  /\ (orchPC = "build" =>
        /\ finished = started - 1
        /\ Restarts = started - 1
        /\ control
        /\ holder = "none")

\* C2 witness: a second event is queued while the first rebuild is between
\* its stop signal and its restart.
C2_Witness == orchPC = "sleep" /\ rx > 0 /\ started = 1

\* C3 (as claimed): after a failed build the process is still alive.
C3_FailedBuildKeepsProcessAlive == failedBuilds > 0 => alive

\* C4 (as claimed): an instance that was running when main wrote false into
\* the flag has left its accept loop once it has made its next check.
C4_SignaledInstanceStopsAtNextCheck ==
  \A i \in checkedAfter : srv[i] \in {"stopped", "panicked"}

\* C5 (as claimed): the instance a rebuild cycle spawns gets bound to the
\* address, and once it has run its bind and main is back at recv no older
\* instance is listening.
C5_NewInstanceBoundAndServing ==
  /\ \A i \in 2..Len(srv) : srv[i] # "bind_panicked"
  /\ (orchPC = "recv" /\ srv[Len(srv)] # "bind" => ListeningSet \subseteq {Len(srv)})

\* C6: at most one HTTP server instance holds a listener on the address, in
\* every reachable state (inside the restart window too).
C6_AtMostOneListening == Cardinality(ListeningSet) <= 1

\* C6 witness: a rebuild has spawned a second instance whose bind ran while
\* another instance was listening.
C6_Witness ==
  /\ ListeningSet # {}
  /\ \E j \in 1..Len(srv) : srv[j] = "bind_panicked"

\* C7 (as claimed): while a store of true has had no reload instruction sent
\* after it, the flag is still set.
C7_FlagStaysSetUntilSent == unnotified => NOTIFY_RELOAD

\* C8: for each store of true into the flag at most one reload instruction is
\* sent, to one client; the reload instructions sent in total never exceed
\* the flag stores, nor the rebuilds that completed their build.
C8_AtMostOneReloadPerAssertion ==
  /\ sentSinceSet <= 1
  /\ TotalSent <= flagSets
  /\ flagSets <= builds

\* C8 witness: two clients are connected, the flag was set, one reload
\* instruction went out to c1 and the flag is clear again, c2 got none.
C8_Witness ==
  /\ connected = Clients
  /\ flagSets = 1
  /\ sent["c1"] = 1
  /\ sent["c2"] = 0
  /\ ~NOTIFY_RELOAD
  /\ wsPC = "idle"

\* C9 (as claimed): after a source document was modified while a client was
\* connected, a reload instruction is eventually sent (or that client has
\* closed its connection).
C9_TouchLeadsToReload == (touchPending # {}) ~> (touchPending = {})

\* C10 (as claimed): a poll that finds a source document newer than the
\* stored timestamp sends a ChangeEvent.
C10_PollSeesDocumentChange == polled.docNewer => polled.emitted


\* C11: the steps of a rebuild cycle (stop flag write, grace period, server
\* spawn, flag restore, reload flag store, guard release) leave the registry
\* WS_CLIENTS and the set of open reload connections unchanged; the registry
\* changes only in a step in which a client connects (it gains that client)
\* and the open connections only when a client connects or disconnects.
C11_RestartKeepsReloadChannel ==
  [][ /\ (orchPC \in {"lock", "sleep", "spawn", "settrue", "notify", "unlock"} /\ orchPC' # orchPC
            => WS_CLIENTS' = WS_CLIENTS /\ connected' = connected)
      /\ (WS_CLIENTS' # WS_CLIENTS
            => \E c \in Clients : c \notin connected /\ connected' = connected \cup {c}
                                   /\ WS_CLIENTS' = Append(WS_CLIENTS, c))
      /\ (connected' # connected
            => \E c \in Clients : connected' = connected \cup {c} \/ connected' = connected \ {c})
    ]_vars

\* C11 witness: a rebuild cycle has spawned its server instance while a
\* client is registered and connected.
C11_Witness == orchPC = "settrue" /\ connected # {} /\ WS_CLIENTS # <<>>


SetMax(S) == CHOOSE x \in S : \A y \in S : y <= x

\* C18: a poll sends exactly one ChangeEvent if some direct entry of content/
\* is newer than the stored timestamp and none otherwise, however many are
\* newer; after it the stored timestamp is the maximum of its old value and
\* the entries' timestamps, so no entry is newer than it (an unchanged tree
\* gives no event at the following poll); the stored timestamp never decreases.
C18_PollCoalescesAndStoresMax ==
  [][ /\ last_modified' >= last_modified
      /\ (polled' # polled =>
            LET newer == \E c \in CollectionSet : dirMtime[c] > last_modified
                n == IF newer THEN 1 ELSE 0
            IN /\ rx' = rx + n
               /\ eventsSent' = eventsSent + n
               /\ polled'.emitted = newer
               /\ last_modified' = SetMax({last_modified} \cup {dirMtime[c] : c \in CollectionSet})
               /\ \A c \in CollectionSet : dirMtime'[c] <= last_modified')
    ]_vars

\* C18 witness: both collection directories changed, at different times,
\* before one poll, which sent one event and stored the later time.
C18_Witness ==
  /\ dirMtime = [c \in CollectionSet |-> IF c = "pages" THEN 1 ELSE 2]
  /\ polled.prev = 0
  /\ polled.emitted
  /\ eventsSent = 1
  /\ last_modified = 2


\* C19 (as claimed): the main thread does not hold the stop-flag mutex while
\* it sleeps the grace period or spawns the new server instance.
C19_NoLockAcrossWaiting == orchPC \in {"sleep", "spawn"} => holder # "main"

\* server instances that can exist: the first one and one per ChangeEvent
InstanceIds == 1..(MaxTime + 1)

\* server instance i is blocked in the lock() of line 76
Waiting(i) == i <= Len(srv) /\ srv[i] = "lock"

\* the main thread is between its lock() and the release of its guard
InRestart == orchPC \in {"lock", "sleep", "spawn", "settrue", "notify", "unlock"}

\* C20: the stop-flag mutex causes no deadlock: a server thread waiting for
\* the mutex does not wait forever (it gets it, unless the process has
\* ended), and the main thread, once its build has succeeded and it goes for
\* the mutex, does not stay in the restart forever: it comes back to recv.
C20_MutexNeverDeadlocks ==
  /\ \A i \in InstanceIds : []<>(~Waiting(i) \/ ~alive)
  /\ []<>(~InRestart)

\* C20 witness: a server thread waits for the mutex while the main thread
\* holds it.
C20_Witness == holder = "main" /\ \E i \in 1..Len(srv) : srv[i] = "lock"


\* ---- markdown_to_html (lines 165-192) ---------------------------------------
\* A line is the sequence of its characters; indices into it are Rust's,
\* counted from 0.

\* line.starts_with(p)
StartsWith(line, p) == Len(line) >= Len(p) /\ SubSeq(line, 1, Len(p)) = p

\* line.contains(p)
Contains(line, p) ==
  \E k \in 1..(Len(line) - Len(p) + 1) : SubSeq(line, k, k + Len(p) - 1) = p

\* Variant of Find: the index of the last occurrence (rfind).
FindLast(line, ch) ==
  IF \E k \in 1..Len(line) : line[k] = ch
  THEN (CHOOSE k \in 1..Len(line) : line[k] = ch /\ \A j \in (k + 1)..Len(line) : line[j] # ch) - 1
  ELSE -1

\* line.find(ch): the index of the first occurrence, -1 for None
Find(line, ch) ==
  IF \E k \in 1..Len(line) : line[k] = ch
  THEN (CHOOSE k \in 1..Len(line) : line[k] = ch /\ \A j \in 1..(k - 1) : line[j] # ch) - 1
  ELSE -1

\* &line[from..to] is defined (it panics otherwise)
SliceOK(line, from, to) == 0 <= from /\ from <= to /\ to <= Len(line)

\* &line[from..to]
Slice(line, from, to) == SubSeq(line, from + 1, to)

Element(tag, text, href) == [tag |-> tag, text |-> text, href |-> href]

\* the tags of the heading levels
HeadingTag(n) == <<"h1", "h2", "h3", "h4", "h5", "h6">>[n]

\* the heading prefixes in the order the code tries them
HeadingPrefix(n) == [k \in 1..(n + 1) |-> IF k <= n THEN "#" ELSE " "]

\* lines 180-186: the link branch; unwrap of a None and a slice out of order panic
RenderLink(line) ==
  LET end_bracket == Find(line, "]")
      start_paren == Find(line, "(")
      end_paren == Find(line, ")")
  IN IF end_bracket = -1 \/ start_paren = -1 \/ end_paren = -1
     THEN [status |-> "panic", elems |-> <<>>]
     ELSE IF ~SliceOK(line, 1, end_bracket) \/ ~SliceOK(line, start_paren + 1, end_paren)
     THEN [status |-> "panic", elems |-> <<>>]
     ELSE [status |-> "ok",
           elems |-> <<Element("a", Slice(line, 1, end_bracket),
                               Slice(line, start_paren + 1, end_paren))>>]

\* lines 168-189: what one line pushes to the result
RenderLine(line) ==
  IF \E n \in 1..6 : StartsWith(line, HeadingPrefix(n))
  THEN LET n == CHOOSE m \in 1..6 : StartsWith(line, HeadingPrefix(m))
       IN [status |-> "ok",
           elems |-> <<Element(HeadingTag(n), Slice(line, n + 1, Len(line)), <<>>)>>]
  ELSE IF StartsWith(line, <<"[">>) /\ Contains(line, <<"]", "(">>)
  THEN RenderLink(line)
  ELSE [status |-> "ok", elems |-> <<Element("p", line, <<>>)>>]

\* lines 166-191: the loop over markdown.lines()
RECURSIVE RenderLines(_, _)
RenderLines(lines, acc) ==
  IF lines = <<>> THEN [status |-> "ok", elems |-> acc]
  ELSE LET r == RenderLine(Head(lines))
       IN IF r.status = "panic" THEN r
          ELSE RenderLines(Tail(lines), acc \o r.elems)

markdown_to_html(lines) == RenderLines(lines, <<>>)

\* the texts of at most n characters over the alphabet S
RECURSIVE TextsUpTo(_, _)
TextsUpTo(S, n) ==
  IF n = 0 THEN {<<>>}
  ELSE LET shorter == TextsUpTo(S, n - 1)
       IN shorter \cup {Append(t, ch) : t \in shorter, ch \in S}

\* characters of the texts and targets of the link lines tried
LinkChars == {"a", "]", "(", ")"}

\* the line [A](B)
LinkLine(A, B) == <<"[">> \o A \o <<"]", "(">> \o B \o <<")">>

\* lines tried in documents: empty, plain, headings of levels 1 to 6, seven
\* '#', '#' without a space, a link, and lines that begin like a link
SampleLines ==
  { <<>>, <<"a">>, <<"#", "a">>, <<"[", "a", "]", "b">>,
    LinkLine(<<"a">>, <<"b">>), <<"[", "a", "]", "(", "b">>, <<"[", ")", "]", "(", "a">> }
  \cup {HeadingPrefix(n) \o <<"a">> : n \in 1..7}

Documents ==
  TextsUpTo(SampleLines, MaxLines)
  \cup {<<LinkLine(A, B)>> : A \in TextsUpTo(LinkChars, MaxText), B \in TextsUpTo(LinkChars, MaxText)}

InitRender ==
  /\ LoopInit
  /\ BuildIdle
  /\ HttpIdle
  /\ markdown \in Documents
  /\ html = [status |-> "none", elems |-> <<>>]

\* the call markdown_to_html(&markdown_content) of line 154
Render ==
  /\ html.status = "none"
  /\ html' = markdown_to_html(markdown)
  /\ UNCHANGED <<markdown, loopVars, buildVars, httpVars>>

NextRender == Render

SpecRender == InitRender /\ [][NextRender]_vars

\* line k of the document is a heading line or begins like a link
IsHeading(line) == \E n \in 1..6 : StartsWith(line, HeadingPrefix(n))
LinkLike(line) == StartsWith(line, <<"[">>) /\ Contains(line, <<"]", "(">>)

\* C16 (as claimed): a document of N lines renders to N elements, one per
\* line, and a line that is neither a heading nor a well-formed link is
\* rendered as a paragraph of its own.
C16_OneElementPerLine ==
  html.status # "none" =>
    /\ html.status = "ok"
    /\ Len(html.elems) = Len(markdown)
    /\ \A k \in 1..Len(markdown) :
         ~IsHeading(markdown[k]) /\ ~LinkLike(markdown[k])
           => html.elems[k] = Element("p", markdown[k], <<>>)

\* the document is the one line [A](B)
IsLinkDoc(A, B) == markdown = <<LinkLine(A, B)>>

\* C17 (as claimed): the line [A](B) renders to one link element with text A
\* and target B, for every A and B.
C17_LinkLineRendersLink ==
  \A A \in TextsUpTo(LinkChars, MaxText), B \in TextsUpTo(LinkChars, MaxText) :
    IsLinkDoc(A, B) /\ html.status # "none"
      => html = [status |-> "ok", elems |-> <<Element("a", A, B)>>]

\* the characters of t
CharsOf(t) == {t[k] : k \in 1..Len(t)}

\* C17 (amended): the line [A](B) renders to one link element with text A and
\* target B whenever A contains none of ']', '(' and ')' and B contains no ')'.
C17_LinkLineRendersLinkAmended ==
  \A A \in TextsUpTo(LinkChars, MaxText), B \in TextsUpTo(LinkChars, MaxText) :
    /\ IsLinkDoc(A, B)
    /\ html.status # "none"
    /\ CharsOf(A) \cap {"]", "(", ")"} = {}
    /\ ")" \notin CharsOf(B)
    => html = [status |-> "ok", elems |-> <<Element("a", A, B)>>]

\* C17 witness: the line [a](() has been rendered, to a link to "(".
C17_Witness ==
  /\ IsLinkDoc(<<"a">>, <<"(">>)
  /\ html = [status |-> "ok", elems |-> <<Element("a", <<"a">>, <<"(">>)>>]


\* ---- build_site taken alone (lines 139-163), apply_template (194-205) ------

\* plain files that content/<c> may hold; they share the stem "a"
Files == {"a.md", "a.txt"}

\* a subdirectory of content/<c>, always there: path.is_file() is false for it
Dirs == {"drafts"}

\* path.file_stem()
Stem(f) == IF f \in {"a.md", "a.txt"} THEN "a" ELSE f
Stems == {Stem(f) : f \in Files}

\* the text of file f in its version v, as its lines
TextOf(f, v) ==
  IF f = "a.md" THEN (IF v = 0 THEN << <<"#", " ", "a">> >> ELSE << <<"#", " ", "a">>, <<"a">> >>)
  ELSE (IF v = 0 THEN << LinkLine(<<"a">>, <<"a">>) >> ELSE << <<>>, <<"a">> >>)

\* no file output/<c>/<stem>.html
Absent == [base |-> "none", template |-> "none", title |-> "none", content |-> <<>>]

\* lines 194-205: the collection template around the content, the base
\* template around that, the title put in
apply_template(template_name, content) ==
  [base |-> "base.html", template |-> template_name, title |-> "My Site", content |-> content]

\* the orders in which read_dir can return the entries S
Orders(S) ==
  {s \in [1..Cardinality(S) -> S] : \A x \in S : \E k \in 1..Cardinality(S) : s[k] = x}

\* lines 147-159 for collection c: the entries in the order given;
\* st = [res, tree]
RECURSIVE BuildEntries(_, _, _)
BuildEntries(c, order, st) ==
  IF order = <<>> \/ st.res # "ok" THEN st
  ELSE LET e == Head(order)
       IN IF e \in Dirs
          THEN BuildEntries(c, Tail(order), st)
          ELSE LET html_content == markdown_to_html(TextOf(e, srcDir[c][e]))
               IN IF html_content.status = "panic" \/ srcOK[c] = "template"
                  THEN [st EXCEPT !.res = "err"]
                  ELSE BuildEntries(c, Tail(order),
                         [st EXCEPT !.tree[c][Stem(e)] =
                            apply_template(c, html_content.elems)])

\* lines 142-160: the collections in order, orders[c] the enumeration of
\* content/<c>; an Err or a panic ends the build where it is
RECURSIVE BuildTree(_, _, _)
BuildTree(cols, orders, st) ==
  IF cols = <<>> \/ st.res # "ok" THEN st
  ELSE LET c == Head(cols)
       IN IF srcOK[c] = "dir"
          THEN [st EXCEPT !.res = "err"]
          ELSE BuildTree(Tail(cols), orders, BuildEntries(c, orders[c], st))

InitBuild ==
  /\ LoopInit
  /\ RenderIdle
  /\ HttpIdle
  /\ srcDir \in [CollectionSet -> UNION {[S -> {0}] : S \in SUBSET Files}]
  /\ srcOK = [c \in CollectionSet |-> "ok"]
  /\ outTree = [c \in CollectionSet |-> [s \in Stems |-> Absent]]
  /\ prevTree = outTree
  /\ built = <<>>

\* build_site is called (lines 14 and 39) and the result unwrapped: after
\* an Err or a panic the process has ended and there is no further call
BuildCall ==
  /\ Len(built) < MaxBuilds
  /\ IF built = <<>> THEN TRUE ELSE built[Len(built)].res = "ok"
  /\ \E orders \in [CollectionSet -> UNION {Orders(S \cup Dirs) : S \in SUBSET Files}] :
       /\ \A c \in CollectionSet : orders[c] \in Orders(DOMAIN srcDir[c] \cup Dirs)
       /\ LET r == BuildTree(Collections, orders, [res |-> "ok", tree |-> outTree])
          IN /\ outTree' = r.tree
             /\ prevTree' = outTree
             /\ built' = Append(built, [res |-> r.res, src |-> srcDir])
  /\ UNCHANGED <<srcDir, srcOK, loopVars, renderVars, httpVars>>

\* a source document is edited between two builds
EditFile(c, f) ==
  /\ built # <<>>
  /\ f \in DOMAIN srcDir[c]
  /\ srcDir[c][f] = 0
  /\ srcDir' = [srcDir EXCEPT ![c][f] = 1]
  /\ UNCHANGED <<srcOK, outTree, prevTree, built, loopVars, renderVars, httpVars>>

\* content/<c> or templates/<c>.html becomes unreadable between two builds
BreakSource(c, what) ==
  /\ built # <<>>
  /\ srcOK[c] = "ok"
  /\ srcOK' = [srcOK EXCEPT ![c] = what]
  /\ UNCHANGED <<srcDir, outTree, prevTree, built, loopVars, renderVars, httpVars>>

NextBuild ==
  \/ BuildCall
  \/ \E c \in CollectionSet, f \in Files : EditFile(c, f)
  \/ \E c \in CollectionSet, what \in {"dir", "template"} : BreakSource(c, what)

SpecBuild == InitBuild /\ [][NextBuild]_vars

\* the last call of build_site
LastBuild == built[Len(built)]

\* C13 (as claimed): after a failed rebuild every output file has the content
\* it had before that build started.
C13_FailedBuildLeavesOutput ==
  Len(built) >= 2 /\ LastBuild.res = "err" => outTree = prevTree

\* C15 (as claimed): a second build of unchanged sources leaves the output
\* tree as the first build left it, whatever the enumeration orders.
C15_RebuildIdempotent ==
  /\ Len(built) >= 2
  /\ LastBuild.res = "ok"
  /\ LastBuild.src = built[Len(built) - 1].src
  => outTree = prevTree


\* ---- handle_connection taken alone (lines 98-137) --------------------------

\* paths are sequences of components; the directories build_site creates
OutDirs == {<<"output">>, <<"output", "pages">>, <<"output", "projects">>}

\* the plain files that may exist under output/
OutPaths ==
  {<<"output", "pages", "index.html">>, <<"output", "pages", "404.html">>,
   <<"output", "pages", "hello.html">>, <<"output", "projects", "p.html">>}

\* the paths a request may name; <<>> is "/"
RequestPaths ==
  {<<>>, <<"pages">>, <<"pages", "index.html">>, <<"pages", "404.html">>,
   <<"pages", "hello.html">>, <<"projects", "p.html">>, <<"missing.html">>}

\* the request lines: method, path, version; or fewer than two tokens
RequestLines ==
  {<<m, p, v>> : m \in {"GET", "POST"}, p \in RequestPaths, v \in {"HTTP/1.1", "HTTP/1.0"}}
    \cup {<<>>, <<"GET">>}

\* line 102: buffer.starts_with(b"GET / HTTP/1.1\r\n")
IsGetRoot(req) == req = <<"GET", <<>>, "HTTP/1.1">>

\* line 111: Path::exists
Exists(path) == path \in outFiles \/ path \in OutDirs

\* lines 102-117: the status line and the file to read; nth(1).unwrap()
\* panics on a line of fewer than two tokens
Resolve(req) ==
  IF IsGetRoot(req)
  THEN [status |-> "200", filename |-> <<"output", "pages", "index.html">>]
  ELSE IF Len(req) < 2
       THEN [status |-> "panic", filename |-> <<>>]
       ELSE LET filepath == <<"output">> \o req[2]
            IN IF Exists(filepath)
               THEN [status |-> "200", filename |-> filepath]
               ELSE [status |-> "404", filename |-> <<"output", "pages", "404.html">>]

\* lines 119-136: read_to_string(filename).unwrap() succeeds on a plain file
\* only; the script is appended and the response written
Respond(req) ==
  LET r == Resolve(req)
  IN IF r.status = "panic" \/ r.filename \notin outFiles
     THEN [status |-> "panic", body |-> <<>>, script |-> FALSE]
     ELSE [status |-> r.status, body |-> r.filename, script |-> TRUE]

InitHttp ==
  /\ LoopInit
  /\ RenderIdle
  /\ BuildIdle
  /\ outFiles \in SUBSET OutPaths
  /\ request = <<"none">>
  /\ response = [status |-> "none", body |-> <<>>, script |-> FALSE]

\* one call of handle_connection
HandleConnection ==
  /\ \E req \in RequestLines :
       /\ request' = req
       /\ response' = Respond(req)
  /\ UNCHANGED <<outFiles, loopVars, renderVars, buildVars>>

NextHttp == HandleConnection

SpecHttp == InitHttp /\ [][NextHttp]_vars

\* the file the claim resolves a request to: the index document for the
\* root path, output + path otherwise
ClaimedFile(req) ==
  IF req[2] = <<>> THEN <<"output", "pages", "index.html">> ELSE <<"output">> \o req[2]

\* C12 (as claimed): every request with a full request line is answered,
\* with 200, the resolved file's content and the script if that file exists,
\* and with 404, the not-found document and the script otherwise.
C12_EveryRequestAnswered ==
  Len(request) = 3 =>
    /\ response.status \in {"200", "404"}
    /\ response.script
    /\ IF ClaimedFile(request) \in outFiles
       THEN response.status = "200" /\ response.body = ClaimedFile(request)
       ELSE response.status = "404" /\ response.body = <<"output", "pages", "404.html">>

====
